---- MODULE Spec2Model ----
\* Model of ai_usefulness_app.py: the keyword scorer (analyze_dimensions),
\* the score aggregator (compute_ai_usefulness) and the page script that
\* runs them when the button is clicked on a non-blank question.
\*
\* A text is a sequence of one-character strings, so that lowercasing and
\* substring search are computed character by character.
EXTENDS Integers, Sequences, FiniteSets, TLC

\* ---------------------------------------------------------------- bounds
\* Number of fragments the user may put into the text area.
MaxFrags == 2

\* ------------------------------------------------------ characters, text
\* str.lower() on the letters that occur in the modelled questions.
ToLower ==
  [A |-> "a", B |-> "b", C |-> "c", D |-> "d", E |-> "e", F |-> "f",
   G |-> "g", H |-> "h", I |-> "i", J |-> "j", K |-> "k", L |-> "l",
   M |-> "m", N |-> "n", O |-> "o", P |-> "p", Q |-> "q", R |-> "r",
   S |-> "s", T |-> "t", U |-> "u", V |-> "v", W |-> "w", X |-> "x",
   Y |-> "y", Z |-> "z"]

lower_char(c) == IF c \in DOMAIN ToLower THEN ToLower[c] ELSE c

\* text.lower(): the same text with every character lowercased.
RECURSIVE lower(_)
lower(text) ==
  IF text = <<>> THEN <<>>
  ELSE <<lower_char(Head(text))>> \o lower(Tail(text))

\* question.strip() is truthy: some character is not whitespace.
Whitespace == {" "}
strip_nonempty(text) == \E i \in 1..Len(text) : text[i] \notin Whitespace

\* term is at position i of t.
match_at(t, term, i) == \A j \in 1..Len(term) : t[i + j - 1] = term[j]

\* `term in t` for two strings: term occurs at some start position of t.
contains(t, term) ==
  \E i \in 1..(Len(t) - Len(term) + 1) : match_at(t, term, i)

\* any(term in t for term in terms)
any_in(terms, t) == \E k \in 1..Len(terms) : contains(t, terms[k])

\* Variant of sum_in: stops at the first hit.
sum_in_first_hit(terms, t) == IF any_in(terms, t) THEN 1 ELSE 0

\* sum(term in t for term in terms): one for every entry of the list found.
sum_in(terms, t) == Cardinality({k \in 1..Len(terms) : contains(t, terms[k])})

\* ---------------------------------------------------------- phrase lists
time_critical_terms ==
  <<
     <<"c","o","d","e"," ","b","l","u","e">>,  \* code blue
     <<"c","a","r","d","i","a","c"," ","a","r","r","e","s","t">>,  \* cardiac arrest
     <<"p","u","l","s","e","l","e","s","s">>,  \* pulseless
     <<"p","e","a">>,  \* pea
     <<"v","f","i","b">>,  \* vfib
     <<"v","-","f","i","b">>,  \* v-fib
     <<"v","t","a","c","h">>,  \* vtach
     <<"v","-","t","a","c","h">>,  \* v-tach
     <<"r","a","p","i","d"," ","r","e","s","p","o","n","s","e">>,  \* rapid response
     <<"r","r","t">>,  \* rrt
     <<"s","t","a","t">>,  \* stat
     <<"i","m","m","e","d","i","a","t","e","l","y">>,  \* immediately
     <<"r","i","g","h","t"," ","n","o","w">>,  \* right now
     <<"n","e","e","d"," ","t","o"," ","d","e","c","i","d","e"," ","n","o","w">>,  \* need to decide now
     <<"c","r","a","s","h","i","n","g">>,  \* crashing
     <<"s","e","v","e","r","e"," ","h","y","p","o","t","e","n","s","i","o","n">>,  \* severe hypotension
     <<"s","h","o","c","k">>,  \* shock
     <<"t","p","a">>,  \* tpa
     <<"t","-","p","a">>,  \* t-pa
     <<"a","l","t","e","p","l","a","s","e">>,  \* alteplase
     <<"s","t","r","o","k","e"," ","c","o","d","e">>,  \* stroke code
     <<"a","c","t","i","v","a","t","e"," ","s","t","r","o","k","e">>,  \* activate stroke
     <<"m","a","s","s","i","v","e"," ","b","l","e","e","d">>,  \* massive bleed
     <<"m","a","s","s","i","v","e"," ","h","e","m","o","r">>,  \* massive hemor
     <<"m","a","s","s","i","v","e"," ","h","e","m","o","r","r","h","a","g","e">>,  \* massive hemorrhage
     <<"i","n","t","u","b","a","t","e"," ","n","o","w">>,  \* intubate now
     <<"e","m","e","r","g","e","n","t"," ","i","n","t","u","b","a","t","i","o","n">>,  \* emergent intubation
     <<"e","m","e","r","g","e","n","t"," ","c","a","t","h">>,  \* emergent cath
     <<"s","t","e","m","i"," ","a","c","t","i","v","a","t","i","o","n">>  \* stemi activation
  >>

medium_urgency_terms ==
  <<
     <<"t","o","d","a","y">>,  \* today
     <<"w","i","t","h","i","n"," ","t","h","e"," ","h","o","u","r">>,  \* within the hour
     <<"t","h","i","s"," ","h","o","u","r">>,  \* this hour
     <<"s","o","o","n">>,  \* soon
     <<"a","c","u","t","e","l","y">>  \* acutely
  >>

high_risk_terms ==
  <<
     <<"t","p","a">>,  \* tpa
     <<"t","h","r","o","m","b","o","l","y","s","i","s">>,  \* thrombolysis
     <<"t","h","r","o","m","b","o","l","y","t","i","c","s">>,  \* thrombolytics
     <<"a","l","t","e","p","l","a","s","e">>,  \* alteplase
     <<"p","u","s","h"," ","d","o","s","e">>,  \* push dose
     <<"p","u","s","h","-","d","o","s","e">>,  \* push-dose
     <<"b","o","l","u","s"," ","p","r","e","s","s","o","r">>,  \* bolus pressor
     <<"p","r","e","s","s","o","r","s">>,  \* pressors
     <<"v","a","s","o","p","r","e","s","s","o","r">>,  \* vasopressor
     <<"l","e","v","o","p","h","e","d">>,  \* levophed
     <<"n","o","r","e","p","i","n","e","p","h","r","i","n","e">>,  \* norepinephrine
     <<"e","p","i","n","e","p","h","r","i","n","e">>,  \* epinephrine
     <<"d","o","p","a","m","i","n","e">>,  \* dopamine
     <<"d","o","b","u","t","a","m","i","n","e">>,  \* dobutamine
     <<"a","m","i","o","d","a","r","o","n","e"," ","b","o","l","u","s">>,  \* amiodarone bolus
     <<"l","i","d","o","c","a","i","n","e"," ","b","o","l","u","s">>,  \* lidocaine bolus
     <<"c","h","e","m","o">>,  \* chemo
     <<"c","h","e","m","o","t","h","e","r","a","p","y">>,  \* chemotherapy
     <<"i","n","t","u","b","a","t","e">>,  \* intubate
     <<"e","x","t","u","b","a","t","e">>,  \* extubate
     <<"e","c","m","o">>,  \* ecmo
     <<"l","v","a","d">>,  \* lvad
     <<"v","e","n","t"," ","s","e","t","t","i","n","g","s">>,  \* vent settings
     <<"c","r","r","t">>,  \* crrt
     <<"d","i","a","l","y","s","i","s"," ","i","n","i","t","i","a","t","i","o","n">>,  \* dialysis initiation
     <<"e","m","e","r","g","e","n","t"," ","s","u","r","g","e","r","y">>  \* emergent surgery
  >>

low_risk_terms ==
  <<
     <<"e","x","p","l","a","i","n">>,  \* explain
     <<"c","o","u","n","s","e","l">>,  \* counsel
     <<"b","o","a","r","d"," ","p","r","e","p">>,  \* board prep
     <<"s","t","u","d","y","i","n","g">>,  \* studying
     <<"e","d","u","c","a","t","i","o","n">>,  \* education
     <<"f","o","r"," ","t","e","a","c","h","i","n","g">>,  \* for teaching
     <<"f","o","r"," ","t","e","a","c","h","i","n","g"," ","p","u","r","p","o","s","e","s">>,  \* for teaching purposes
     <<"l","o","n","g","-","t","e","r","m"," ","m","a","n","a","g","e","m","e","n","t">>,  \* long-term management
     <<"i","n"," ","g","e","n","e","r","a","l">>,  \* in general
     <<"o","v","e","r","a","l","l"," ","s","t","r","a","t","e","g","y">>  \* overall strategy
  >>

protocol_terms ==
  <<
     <<"h","o","s","p","i","t","a","l"," ","p","r","o","t","o","c","o","l">>,  \* hospital protocol
     <<"i","n","s","t","i","t","u","t","i","o","n","a","l"," ","p","r","o","t","o","c","o","l">>,  \* institutional protocol
     <<"o","r","d","e","r"," ","s","e","t">>,  \* order set
     <<"o","r","d","e","r","s","e","t">>,  \* orderset
     <<"n","o","m","o","g","r","a","m">>,  \* nomogram
     <<"p","o","l","i","c","y">>,  \* policy
     <<"l","o","c","a","l"," ","p","r","o","t","o","c","o","l">>,  \* local protocol
     <<"s","t","r","o","k","e"," ","p","r","o","t","o","c","o","l">>,  \* stroke protocol
     <<"s","e","p","s","i","s"," ","b","u","n","d","l","e">>,  \* sepsis bundle
     <<"v","e","n","t"," ","w","e","a","n","i","n","g"," ","p","r","o","t","o","c","o","l">>,  \* vent weaning protocol
     <<"i","n","s","u","l","i","n"," ","d","r","i","p"," ","p","r","o","t","o","c","o","l">>,  \* insulin drip protocol
     <<"h","e","p","a","r","i","n"," ","d","r","i","p"," ","p","r","o","t","o","c","o","l">>,  \* heparin drip protocol
     <<"d","k","a"," ","p","r","o","t","o","c","o","l">>  \* dka protocol
  >>

mixed_terms ==
  <<
     <<"o","u","r"," ","h","o","s","p","i","t","a","l">>,  \* our hospital
     <<"a","t"," ","o","u","r"," ","i","n","s","t","i","t","u","t","i","o","n">>,  \* at our institution
     <<"f","o","r","m","u","l","a","r","y">>  \* formulary
  >>

evidence_terms ==
  <<
     <<"e","v","i","d","e","n","c","e">>,  \* evidence
     <<"l","i","t","e","r","a","t","u","r","e">>,  \* literature
     <<"t","r","i","a","l">>,  \* trial
     <<"t","r","i","a","l","s">>,  \* trials
     <<"r","c","t">>,  \* rct
     <<"r","a","n","d","o","m","i","z","e","d">>,  \* randomized
     <<"m","e","t","a","-","a","n","a","l","y","s","i","s">>,  \* meta-analysis
     <<"m","e","t","a"," ","a","n","a","l","y","s","i","s">>,  \* meta analysis
     <<"s","y","s","t","e","m","a","t","i","c"," ","r","e","v","i","e","w">>,  \* systematic review
     <<"c","o","h","o","r","t"," ","s","t","u","d","y">>,  \* cohort study
     <<"c","o","m","p","a","r","e">>,  \* compare
     <<"c","o","m","p","a","r","i","s","o","n">>,  \* comparison
     <<"n","o","n","i","n","f","e","r","i","o","r">>,  \* noninferior
     <<"n","o","n","-","i","n","f","e","r","i","o","r">>,  \* non-inferior
     <<"s","u","p","e","r","i","o","r">>,  \* superior
     <<"m","o","r","t","a","l","i","t","y"," ","b","e","n","e","f","i","t">>,  \* mortality benefit
     <<"o","u","t","c","o","m","e","s"," ","o","f">>,  \* outcomes of
     <<"h","a","z","a","r","d"," ","r","a","t","i","o">>,  \* hazard ratio
     <<"g","u","i","d","e","l","i","n","e">>,  \* guideline
     <<"g","u","i","d","e","l","i","n","e","s">>,  \* guidelines
     <<"c","l","a","s","s"," ","i"," ","r","e","c","o","m","m","e","n","d","a","t","i","o","n">>,  \* class i recommendation
     <<"c","l","a","s","s"," ","i","i">>,  \* class ii
     <<"c","l","a","s","s"," ","1">>,  \* class 1
     <<"a","h","a">>,  \* aha
     <<"a","c","c">>,  \* acc
     <<"e","s","c">>,  \* esc
     <<"c","h","e","s","t"," ","g","u","i","d","e","l","i","n","e">>  \* chest guideline
  >>

teaching_terms ==
  <<
     <<"e","x","p","l","a","i","n"," ","t","o"," ","a"," ","p","a","t","i","e","n","t">>,  \* explain to a patient
     <<"e","x","p","l","a","i","n"," ","t","o"," ","p","a","t","i","e","n","t">>,  \* explain to patient
     <<"h","o","w"," ","t","o"," ","e","x","p","l","a","i","n">>,  \* how to explain
     <<"h","o","w"," ","t","o"," ","c","o","u","n","s","e","l">>,  \* how to counsel
     <<"c","o","u","n","s","e","l","i","n","g">>,  \* counseling
     <<"p","a","t","i","e","n","t","-","f","r","i","e","n","d","l","y">>,  \* patient-friendly
     <<"p","l","a","i","n"," ","l","a","n","g","u","a","g","e">>,  \* plain language
     <<"t","e","a","c","h"," ","a","n"," ","i","n","t","e","r","n">>,  \* teach an intern
     <<"t","e","a","c","h"," ","a"," ","m","e","d","i","c","a","l"," ","s","t","u","d","e","n","t">>,  \* teach a medical student
     <<"f","o","r"," ","t","e","a","c","h","i","n","g">>,  \* for teaching
     <<"f","o","r"," ","e","d","u","c","a","t","i","o","n">>,  \* for education
     <<"b","o","a","r","d"," ","p","r","e","p">>,  \* board prep
     <<"f","o","r"," ","s","t","u","d","y","i","n","g">>,  \* for studying
     <<"m","o","c">>,  \* moc
     <<"s","i","m","p","l","e"," ","e","x","p","l","a","n","a","t","i","o","n">>,  \* simple explanation
     <<"l","a","y"," ","t","e","r","m","s">>  \* lay terms
  >>

mild_edu_terms ==
  <<
     <<"u","n","d","e","r","s","t","a","n","d"," ","t","h","e"," ","m","e","c","h","a","n","i","s","m">>,  \* understand the mechanism
     <<"p","a","t","h","o","p","h","y","s","i","o","l","o","g","y">>,  \* pathophysiology
     <<"w","h","y"," ","d","o","e","s">>,  \* why does
     <<"m","e","c","h","a","n","i","s","m"," ","o","f">>  \* mechanism of
  >>
\* ------------------------------------------------------ rationale strings
\* The arrow of the source strings is written "->".
R_TIME_HIGH == "Detected **time-critical / crashing context** -> urgency set to HIGH."
R_TIME_MODERATE == "Detected **some time pressure** -> urgency set to MODERATE."
R_TIME_LOW == "No strong urgency language -> urgency set to LOW."
R_RISK_HIGH == "Detected **high-stakes intervention language** -> risk level set to HIGH."
R_RISK_LOW == "Detected **educational / low-risk framing** -> risk level set to LOW."
R_RISK_MODERATE == "No extreme risk terms detected -> risk level set to MODERATE."
R_PROTO_LOW == "Detected **hospital-specific / protocol language** -> protocol-independence set to LOW."
R_PROTO_MODERATE == "Detected **some local context language** -> protocol-independence set to MODERATE."
R_PROTO_HIGH == "No protocol language -> protocol-independence set to HIGH."
R_EVID_HIGH == "Multiple **evidence/guideline cues** detected -> evidence-orientation set to HIGH."
R_EVID_MODERATE == "Some **evidence/guideline language** -> evidence-orientation set to MODERATE."
R_EVID_LOW == "No obvious evidence/guideline cues -> evidence-orientation set to LOW."
R_EDU_HIGH == "Detected **teaching / patient-education focus** -> educational-frame set to HIGH."
R_EDU_MODERATE == "Detected **mechanism / understanding focus** -> educational-frame set to MODERATE."
R_EDU_LOW == "No explicit educational framing -> educational-frame set to LOW."

\* ------------------------------------------------------ analyze_dimensions
\* The locals of analyze_dimensions after `reasons = []; hard_stop = False`.
\* The five scores are assigned by their sections before anything reads them.
locals0 ==
  [reasons |-> <<>>, hard_stop |-> FALSE,
   time_urgency |-> 2, risk_level |-> 1, protocol_independence |-> 2,
   evidence_orientation |-> 0, educational_frame |-> 0]

\* Variant of time_urgency_section: the critical branch leaves hard_stop alone.
time_urgency_section_no_flag(t, s) ==
  LET s1 == [s EXCEPT !.time_urgency = 2] IN
  IF any_in(time_critical_terms, t)
  THEN [s1 EXCEPT !.time_urgency = 0,
                  !.reasons = Append(@, R_TIME_HIGH)]
  ELSE IF any_in(medium_urgency_terms, t)
  THEN [s1 EXCEPT !.time_urgency = 1,
                  !.reasons = Append(@, R_TIME_MODERATE)]
  ELSE [s1 EXCEPT !.reasons = Append(@, R_TIME_LOW)]

\* 1. TIME URGENCY
time_urgency_section(t, s) ==
  LET s1 == [s EXCEPT !.time_urgency = 2] IN
  IF any_in(time_critical_terms, t)
  THEN [s1 EXCEPT !.time_urgency = 0,
                  !.reasons = Append(@, R_TIME_HIGH),
                  !.hard_stop = TRUE]
  ELSE IF any_in(medium_urgency_terms, t)
  THEN [s1 EXCEPT !.time_urgency = 1,
                  !.reasons = Append(@, R_TIME_MODERATE)]
  ELSE [s1 EXCEPT !.reasons = Append(@, R_TIME_LOW)]

\* Variant of risk_level_section: hard_stop is reassigned from this detector
\* alone, so a miss clears the flag the time detector set.
risk_level_section_reassign(t, s) ==
  LET s1 == [s EXCEPT !.risk_level = 1] IN
  IF any_in(high_risk_terms, t)
  THEN [s1 EXCEPT !.risk_level = 0,
                  !.reasons = Append(@, R_RISK_HIGH),
                  !.hard_stop = TRUE]
  ELSE IF any_in(low_risk_terms, t)
  THEN [s1 EXCEPT !.risk_level = 2,
                  !.reasons = Append(@, R_RISK_LOW),
                  !.hard_stop = FALSE]
  ELSE [s1 EXCEPT !.reasons = Append(@, R_RISK_MODERATE),
                  !.hard_stop = FALSE]

\* 2. RISK LEVEL
risk_level_section(t, s) ==
  LET s1 == [s EXCEPT !.risk_level = 1] IN
  IF any_in(high_risk_terms, t)
  THEN [s1 EXCEPT !.risk_level = 0,
                  !.reasons = Append(@, R_RISK_HIGH),
                  !.hard_stop = TRUE]
  ELSE IF any_in(low_risk_terms, t)
  THEN [s1 EXCEPT !.risk_level = 2,
                  !.reasons = Append(@, R_RISK_LOW)]
  ELSE [s1 EXCEPT !.reasons = Append(@, R_RISK_MODERATE)]

\* 3. PROTOCOL DEPENDENCE
protocol_section(t, s) ==
  LET s1 == [s EXCEPT !.protocol_independence = 2] IN
  IF any_in(protocol_terms, t)
  THEN [s1 EXCEPT !.protocol_independence = 0,
                  !.reasons = Append(@, R_PROTO_LOW)]
  ELSE IF any_in(mixed_terms, t)
  THEN [s1 EXCEPT !.protocol_independence = 1,
                  !.reasons = Append(@, R_PROTO_MODERATE)]
  ELSE [s1 EXCEPT !.reasons = Append(@, R_PROTO_HIGH)]

\* Variant of evidence_section: the score is the hit count itself.
evidence_section_uncapped(t, s) ==
  LET s1 == [s EXCEPT !.evidence_orientation = 0] IN
  IF any_in(evidence_terms, t)
  THEN LET hit_count == sum_in(evidence_terms, t) IN
       IF hit_count >= 2
       THEN [s1 EXCEPT !.evidence_orientation = hit_count,
                       !.reasons = Append(@, R_EVID_HIGH)]
       ELSE [s1 EXCEPT !.evidence_orientation = 1,
                       !.reasons = Append(@, R_EVID_MODERATE)]
  ELSE [s1 EXCEPT !.reasons = Append(@, R_EVID_LOW)]

\* 4. EVIDENCE ORIENTATION
evidence_section(t, s) ==
  LET s1 == [s EXCEPT !.evidence_orientation = 0] IN
  IF any_in(evidence_terms, t)
  THEN LET hit_count == sum_in(evidence_terms, t) IN
       IF hit_count >= 2
       THEN [s1 EXCEPT !.evidence_orientation = 2,
                       !.reasons = Append(@, R_EVID_HIGH)]
       ELSE [s1 EXCEPT !.evidence_orientation = 1,
                       !.reasons = Append(@, R_EVID_MODERATE)]
  ELSE [s1 EXCEPT !.reasons = Append(@, R_EVID_LOW)]

\* Variant of educational_section: the mechanism tier is tested first.
educational_section_swapped(t, s) ==
  LET s1 == [s EXCEPT !.educational_frame = 0] IN
  IF any_in(mild_edu_terms, t)
  THEN [s1 EXCEPT !.educational_frame = 1,
                  !.reasons = Append(@, R_EDU_MODERATE)]
  ELSE IF any_in(teaching_terms, t)
  THEN [s1 EXCEPT !.educational_frame = 2,
                  !.reasons = Append(@, R_EDU_HIGH)]
  ELSE [s1 EXCEPT !.reasons = Append(@, R_EDU_LOW)]

\* 5. EDUCATIONAL / EXPLANATION FRAME
educational_section(t, s) ==
  LET s1 == [s EXCEPT !.educational_frame = 0] IN
  IF any_in(teaching_terms, t)
  THEN [s1 EXCEPT !.educational_frame = 2,
                  !.reasons = Append(@, R_EDU_HIGH)]
  ELSE IF any_in(mild_edu_terms, t)
  THEN [s1 EXCEPT !.educational_frame = 1,
                  !.reasons = Append(@, R_EDU_MODERATE)]
  ELSE [s1 EXCEPT !.reasons = Append(@, R_EDU_LOW)]

\* analyze_dimensions(text): lowercase, then the five sections in order;
\* the returned dict has the five scores, reasons and hard_stop.
\* Variant of sections: the protocol section runs before the risk section.
sections_reordered(t) ==
  LET a == time_urgency_section(t, locals0)
      b == protocol_section(t, a)
      c == risk_level_section(t, b)
      d == evidence_section(t, c)
      e == educational_section(t, d)
  IN  [time_urgency |-> e.time_urgency,
       risk_level |-> e.risk_level,
       protocol_independence |-> e.protocol_independence,
       evidence_orientation |-> e.evidence_orientation,
       educational_frame |-> e.educational_frame,
       reasons |-> e.reasons,
       hard_stop |-> e.hard_stop]

\* The five sections of analyze_dimensions in source order and its return
\* value.
sections(t) ==
  LET a == time_urgency_section(t, locals0)
      b == risk_level_section(t, a)
      c == protocol_section(t, b)
      d == evidence_section(t, c)
      e == educational_section(t, d)
  IN  [time_urgency |-> e.time_urgency,
       risk_level |-> e.risk_level,
       protocol_independence |-> e.protocol_independence,
       evidence_orientation |-> e.evidence_orientation,
       educational_frame |-> e.educational_frame,
       reasons |-> e.reasons,
       hard_stop |-> e.hard_stop]

\* t = text.lower() is computed once and the sections read that value.
analyze_dimensions(text) ==
  CHOOSE r \in {sections(t) : t \in {lower(text)}} : TRUE

\* --------------------------------------------------- compute_ai_usefulness
Min(a, b) == IF a < b THEN a ELSE b
Max(a, b) == IF a > b THEN a ELSE b

\* The weighted sum of lines 183-189.
weighted_sum(dim) ==
    (2 - dim.time_urgency) * 2
  + dim.risk_level * 2
  + dim.protocol_independence * 2
  + dim.evidence_orientation * 2
  + dim.educational_frame * 1

\* Variant of clamp: proportional rescale of 0..18 into 0..10.
clamp_rescaled(score) == (score * 10) \div 18

\* Variant of clamp: lower bound only.
clamp_no_ceiling(score) == Max(0, score)

\* score = max(0, min(10, score))
clamp(score) == Max(0, Min(10, score))

\* Variant of hard_stop_cap: the override is missing.
hard_stop_cap_missing(dim, score) == score

\* if dim["hard_stop"] and score > 3: score = 3.0
\* (3.0 == 3 in Python; every score is a whole number, kept as an integer)
hard_stop_cap(dim, score) == IF dim.hard_stop /\ score > 3 THEN 3 ELSE score

compute_ai_usefulness(dim) == hard_stop_cap(dim, clamp(weighted_sum(dim)))

\* The band of the page script: score <= 3, score <= 7, else.
band(score) ==
  IF score <= 3 THEN "red" ELSE IF score <= 7 THEN "orange" ELSE "green"

\* ------------------------------------------------------------------ state
\* question : content of the text area
\* typed    : number of fragments put into the text area (bounds the model)
\* rendered : the result block is on the page (the last run took the branch
\*            of line 200)
\* dim, score, color : the values of that run, None when not rendered
VARIABLES question, typed, rendered, dim, score, color

vars == <<question, typed, rendered, dim, score, color>>

None == "None"

\* Fragments a user types; together they hit every phrase list, both tiers
\* of each detector, upper case, and a phrase inside a longer word
\* ("tpa" in "outpatient").
Fragments ==
  { <<"S","t","a","t">>,
    <<"O","u","t","p","a","t","i","e","n","t">>,
    <<"s","o","o","n">>,
    <<"e","c","m","o">>,
    <<"b","o","a","r","d"," ","p","r","e","p">>,
    <<"p","o","l","i","c","y">>,
    <<"f","o","r","m","u","l","a","r","y">>,
    <<"t","r","i","a","l","s">>,
    <<"R","C","T">>,
    <<"w","h","y"," ","d","o","e","s">>,
    <<" ">> }

Init ==
  /\ question = <<>>
  /\ typed = 0
  /\ rendered = FALSE
  /\ dim = None
  /\ score = None
  /\ color = None

\* The user adds text to the text area; the script reruns with the button
\* not clicked, so no result block is drawn.
EditQuestion ==
  /\ typed < MaxFrags
  /\ \E f \in Fragments : question' = question \o f
  /\ typed' = typed + 1
  /\ rendered' = FALSE
  /\ dim' = None /\ score' = None /\ color' = None

\* The user empties the text area.
ClearQuestion ==
  /\ question # <<>>
  /\ question' = <<>>
  /\ typed' = 0
  /\ rendered' = FALSE
  /\ dim' = None /\ score' = None /\ color' = None

\* Button clicked on a non-blank question: lines 200-252.
Calculate ==
  /\ strip_nonempty(question)
  /\ dim' = analyze_dimensions(question)
  /\ score' = compute_ai_usefulness(dim')
  /\ color' = band(score')
  /\ rendered' = TRUE
  /\ UNCHANGED <<question, typed>>

\* Button clicked on a blank question: the condition of line 200 is false
\* and nothing is drawn.
CalculateBlank ==
  /\ ~strip_nonempty(question)
  /\ rendered' = FALSE
  /\ dim' = None /\ score' = None /\ color' = None
  /\ UNCHANGED <<question, typed>>

Next == EditQuestion \/ ClearQuestion \/ Calculate \/ CalculateBlank

Spec == Init /\ [][Next]_vars

\* ------------------------------------------------ the aggregator on its own
\* Every DimensionScores record with each field in 0..2 and either flag.
DimensionScores ==
  [time_urgency : 0..2, risk_level : 0..2, protocol_independence : 0..2,
   evidence_orientation : 0..2, educational_frame : 0..2,
   hard_stop : BOOLEAN, reasons : {<<>>}]

InitAgg ==
  /\ question = <<>>
  /\ typed = 0
  /\ rendered = FALSE
  /\ dim \in DimensionScores
  /\ score = None
  /\ color = None

Aggregate ==
  /\ ~rendered
  /\ score' = compute_ai_usefulness(dim)
  /\ color' = band(score')
  /\ rendered' = TRUE
  /\ UNCHANGED <<question, typed, dim>>

NextAgg == Aggregate

SpecAgg == InitAgg /\ [][NextAgg]_vars

\* ======================================================== properties
\* Phrase matching stated on the question itself: term occurs in text when
\* at some position every character equals the phrase's character or is
\* its upper-case form.
SameLetter(c, d) == c = d \/ (c \in DOMAIN ToLower /\ ToLower[c] = d)

OccursAt(term, text, i) ==
  /\ i + Len(term) - 1 <= Len(text)
  /\ \A j \in 1..Len(term) : SameLetter(text[i + j - 1], term[j])

Occurs(term, text) == \E i \in 1..Len(text) : OccursAt(term, text, i)

Matches(terms, text) == \E k \in DOMAIN terms : Occurs(terms[k], text)

\* The distinct phrases of a list that occur in text.
Hits(terms, text) == {ph \in {terms[k] : k \in DOMAIN terms} : Occurs(ph, text)}

\* The raw weighted sum as the specification writes it.
Raw(d) ==
  (2 - d.time_urgency) * 2 + d.risk_level * 2 + d.protocol_independence * 2
  + d.evidence_orientation * 2 + d.educational_frame

\* C1: with hard_stop set, the aggregated score is at most 3 for every
\* combination of the five dimension scores.
C1_HardStopCapsScore == (rendered /\ dim.hard_stop) => score <= 3

\* The most favourable combination with hard_stop set was aggregated.
C1_Witness ==
  /\ rendered
  /\ dim.hard_stop
  /\ dim.time_urgency = 0 /\ dim.risk_level = 2
  /\ dim.protocol_independence = 2 /\ dim.evidence_orientation = 2
  /\ dim.educational_frame = 2
  /\ score = 3

\* C2: hard_stop is set exactly when a time-critical phrase or a high-risk
\* phrase occurs in the question, ignoring case and word boundaries.
C2_HardStopIffCriticalPhrase ==
  rendered =>
    (dim.hard_stop <=> (Matches(time_critical_terms, question)
                        \/ Matches(high_risk_terms, question)))

\* A capitalised word that merely contains "tpa" set the flag.
C2_Witness ==
  /\ rendered
  /\ question = <<"O","u","t","p","a","t","i","e","n","t">>
  /\ dim.hard_stop

\* C3: of two records that differ only in time_urgency, the one with the
\* higher time_urgency (more time) scores at least as high.
C3_MoreTimeScoresHigher ==
  rendered =>
    \A tu \in 0..2 :
      tu > dim.time_urgency =>
        compute_ai_usefulness([dim EXCEPT !.time_urgency = tu]) >= score

\* C4: raw lies in 0..18 and the score is min(10, raw) without hard_stop
\* and min(3, raw) with it.
C4_ScoreIsSaturatedRaw ==
  rendered =>
    /\ Raw(dim) \in 0..18
    /\ score = IF dim.hard_stop THEN Min(3, Raw(dim)) ELSE Min(10, Raw(dim))

\* A raw value strictly between 10 and 18 was saturated to 10.
C4_Witness ==
  rendered /\ ~dim.hard_stop /\ Raw(dim) = 14 /\ score = 10

\* C5: the aggregated score is between 0 and 10 inclusive.
C5_ScoreInRange == rendered => score \in 0..10

\* The largest raw value was aggregated.
C5_Witness == rendered /\ ~dim.hard_stop /\ Raw(dim) = 18 /\ score = 10

\* C6: each of the five dimension scores of an analysed question is an
\* integer in 0..2.
C6_DimensionsInRange ==
  rendered =>
    /\ dim.time_urgency \in 0..2
    /\ dim.risk_level \in 0..2
    /\ dim.protocol_independence \in 0..2
    /\ dim.evidence_orientation \in 0..2
    /\ dim.educational_frame \in 0..2

\* A question with three evidence hits was analysed.
C6_Witness ==
  /\ rendered
  /\ Cardinality(Hits(evidence_terms, question)) >= 3
  /\ dim.evidence_orientation = 2

\* The score of a three-tier detector: first tier, else second tier, else
\* the default.
TierScore(first, firstScore, second, secondScore, default, text) ==
  IF Matches(first, text) THEN firstScore
  ELSE IF Matches(second, text) THEN secondScore
  ELSE default

\* C7: each three-tier detector gives the score of the first of its own
\* tiers that matches, and its default (2, 1, 2, 0) when neither does.
C7_FirstMatchingTier ==
  rendered =>
    /\ dim.time_urgency =
         TierScore(time_critical_terms, 0, medium_urgency_terms, 1, 2, question)
    /\ dim.risk_level =
         TierScore(high_risk_terms, 0, low_risk_terms, 2, 1, question)
    /\ dim.protocol_independence =
         TierScore(protocol_terms, 0, mixed_terms, 1, 2, question)
    /\ dim.educational_frame =
         TierScore(teaching_terms, 2, mild_edu_terms, 1, 0, question)

\* A question matched both tiers of the educational detector, which took
\* its first tier, and no phrase of the time and protocol detectors, which
\* kept their defaults.
C7_Witness ==
  /\ rendered
  /\ Matches(teaching_terms, question) /\ Matches(mild_edu_terms, question)
  /\ dim.educational_frame = 2
  /\ dim.time_urgency = 2 /\ dim.protocol_independence = 2

\* C8: evidence_orientation is min(2, n), n the number of distinct evidence
\* phrases that occur in the question.
C8_EvidenceCountsAllHits ==
  rendered =>
    dim.evidence_orientation =
      Min(2, Cardinality(Hits(evidence_terms, question)))

\* "trials" alone hit both "trial" and "trials" and scored 2.
C8_Witness ==
  /\ rendered
  /\ Hits(evidence_terms, question)
       = {<<"t","r","i","a","l">>, <<"t","r","i","a","l","s">>}
  /\ dim.evidence_orientation = 2

\* C9: reasons has five entries in the order time, risk, protocol,
\* evidence, education, each the rationale of the branch that gave the
\* dimension its score.
C9_ReasonsFollowDetectors ==
  rendered =>
    /\ Len(dim.reasons) = 5
    /\ dim.reasons[1] = <<R_TIME_HIGH, R_TIME_MODERATE, R_TIME_LOW>>[dim.time_urgency + 1]
    /\ dim.reasons[2] = <<R_RISK_HIGH, R_RISK_MODERATE, R_RISK_LOW>>[dim.risk_level + 1]
    /\ dim.reasons[3] = <<R_PROTO_LOW, R_PROTO_MODERATE, R_PROTO_HIGH>>[dim.protocol_independence + 1]
    /\ dim.reasons[4] = <<R_EVID_LOW, R_EVID_MODERATE, R_EVID_HIGH>>[dim.evidence_orientation + 1]
    /\ dim.reasons[5] = <<R_EDU_LOW, R_EDU_MODERATE, R_EDU_HIGH>>[dim.educational_frame + 1]

\* A question fired a non-default branch of the risk and protocol detectors.
C9_Witness ==
  /\ rendered
  /\ dim.reasons[2] = R_RISK_HIGH
  /\ dim.reasons[3] = R_PROTO_MODERATE
  /\ dim.risk_level = 0 /\ dim.protocol_independence = 1

\* C10: a question with a time-critical phrase ends with score 3, and a
\* score below 3 occurs only with time_urgency other than 0.
C10_TimeCriticalScoresThree ==
  rendered =>
    /\ Matches(time_critical_terms, question) => score = 3
    /\ score < 3 => dim.time_urgency # 0

\* A time-critical question whose other detectors were favourable scored 3.
C10_Witness ==
  /\ rendered
  /\ Matches(time_critical_terms, question)
  /\ ~Matches(high_risk_terms, question)
  /\ dim.risk_level = 2 /\ dim.educational_frame = 2
  /\ score = 3

====
